---- MODULE Spec2Model ----
(***************************************************************************)
(* Model of go-printtree (package printtree): the Tree node heap, the      *)
(* global style registry scaffoldingDict, the recursive renderer           *)
(* Tree.print and the ordinal numbering helpers of tree.go.                *)
(*                                                                         *)
(* A Go string is modelled as a sequence of runes; a rune is written as a  *)
(* one-element TLA+ string ("a", " ", "\n"), and the box-drawing runes of  *)
(* the built-in styles by their code point ("u251C" is U+251C).            *)
(***************************************************************************)
EXTENDS Integers, Sequences, FiniteSets, TLC

VARIABLES Label, Branches, used, scaffoldingDict, last

vars == <<Label, Branches, used, scaffoldingDict, last>>

-----------------------------------------------------------------------------
(* Bounds of the model *)

\* number of Tree nodes the heap can hold (the root of NewTree included)
MaxNodes == 5
\* number of styles AddStructuralStyle / AddListStyle may add to the registry
MaxCustom == 1
\* branch-list entries, over all trees, that AddTreeAsBranch may add
MaxGrafted == 2
\* trees that exist while trees are grafted
MaxGraftNodes == 4
\* trees made by NewTree
MaxRoots == 2
\* largest argument given to convertToAlpha
MaxAlpha == 704
\* largest argument given to convertToRoman
MaxRoman == 4000
\* largest index given to replaceNumberListMarkup
MaxIndex == 30
\* the numbering helpers are given the arguments -MaxNegative .. 0 as well
MaxNegative == 2

-----------------------------------------------------------------------------
(* Strings *)

NL == "\n"
SP == " "

RECURSIVE Flatten(_)
\* concatenation of a sequence of strings
Flatten(ss) == IF ss = <<>> THEN <<>> ELSE Head(ss) \o Flatten(Tail(ss))

RECURSIVE Repeat(_, _)
\* strings.Repeat: k copies of s
Repeat(s, k) == IF k <= 0 THEN <<>> ELSE s \o Repeat(s, k - 1)

\* strings.Contains(s, c) for a one-rune c
Contains(s, c) == \E i \in 1..Len(s) : s[i] = c

RECURSIVE Split(_, _)
\* strings.Split(s, sep) for a one-rune separator: always at least one part
Split(s, sep) ==
  IF ~Contains(s, sep) THEN <<s>>
  ELSE LET i == CHOOSE j \in 1..Len(s) :
                  s[j] = sep /\ \A k \in 1..(j - 1) : s[k] # sep
       IN  <<SubSeq(s, 1, i - 1)>> \o Split(SubSeq(s, i + 1, Len(s)), sep)

Lower == <<"a","b","c","d","e","f","g","h","i","j","k","l","m",
           "n","o","p","q","r","s","t","u","v","w","x","y","z">>
Upper == <<"A","B","C","D","E","F","G","H","I","J","K","L","M",
           "N","O","P","Q","R","S","T","U","V","W","X","Y","Z">>
Digits == <<"0","1","2","3","4","5","6","7","8","9">>

\* strings.ToUpper: lower-case letters are mapped, every other rune is kept
ToUpper(s) ==
  [i \in 1..Len(s) |->
     IF \E j \in 1..26 : Lower[j] = s[i]
     THEN Upper[CHOOSE j \in 1..26 : Lower[j] = s[i]]
     ELSE s[i]]

RECURSIVE Itoa(_)
\* strconv.Itoa
Itoa(n) ==
  IF n < 0 THEN <<"-">> \o Itoa(-n)
  ELSE IF n < 10 THEN <<Digits[n + 1]>>
  ELSE Itoa(n \div 10) \o <<Digits[(n % 10) + 1]>>

\* fmt.Sprintf("%*s", width, s): s right-aligned in width, never truncated
SprintfPad(width, s) ==
  IF Len(s) >= width THEN s ELSE Repeat(<<SP>>, width - Len(s)) \o s

-----------------------------------------------------------------------------
(* Ordinal conversion: tree.go 400-449 *)

Invalid == <<"-">>

RECURSIVE AlphaLoop(_, _)
\* a loop that divides n, not n-1: positional base 26, whose digit z
\* carries into the next position
AlphaLoop_Positional(n, s) ==
  IF n > 0 THEN AlphaLoop(n \div 26, <<Lower[((n - 1) % 26) + 1]>> \o s)
  ELSE s

\* the loop of convertToAlpha: s = rune((n-1)%26 + 'a') + s; n = (n-1)/26
AlphaLoop(n, s) ==
  IF n > 0 THEN AlphaLoop((n - 1) \div 26, <<Lower[((n - 1) % 26) + 1]>> \o s)
  ELSE s

convertToAlpha(n) == IF n <= 0 THEN Invalid ELSE AlphaLoop(n, <<>>)

romanMap ==
  << [value |-> 1000, key |-> <<"m">>],
     [value |-> 900,  key |-> <<"c","m">>],
     [value |-> 500,  key |-> <<"d">>],
     [value |-> 400,  key |-> <<"c","d">>],
     [value |-> 100,  key |-> <<"c">>],
     [value |-> 90,   key |-> <<"x","c">>],
     [value |-> 50,   key |-> <<"l">>],
     [value |-> 40,   key |-> <<"x","l">>],
     [value |-> 10,   key |-> <<"x">>],
     [value |-> 9,    key |-> <<"i","x">>],
     [value |-> 5,    key |-> <<"v">>],
     [value |-> 4,    key |-> <<"i","v">>],
     [value |-> 1,    key |-> <<"i">>] >>

\* a table without the subtractive pairs cm, cd, xc, xl, ix, iv
RomanPick_Additive(n) ==
  CHOOSE j \in 1..Len(romanMap) :
    /\ Len(romanMap[j].key) = 1
    /\ n >= romanMap[j].value
    /\ \A k \in 1..(j - 1) :
         Len(romanMap[k].key) = 1 => n < romanMap[k].value

\* the inner for-range of convertToRoman: the first table entry with
\* n >= rn.value (the loop breaks there)
RomanPick(n) ==
  CHOOSE j \in 1..Len(romanMap) :
    /\ n >= romanMap[j].value
    /\ \A k \in 1..(j - 1) : n < romanMap[k].value

RECURSIVE RomanLoop(_, _)
\* the outer loop of convertToRoman: s += rn.key; n -= rn.value
RomanLoop(n, s) ==
  IF n > 0
  THEN LET rn == romanMap[RomanPick(n)]
       IN  RomanLoop(n - rn.value, s \o rn.key)
  ELSE s

\* a guard that lets zero through
convertToRoman_ZeroPasses(n) ==
  IF n < 0 THEN Invalid ELSE RomanLoop(n, <<>>)

convertToRoman(n) == IF n <= 0 THEN Invalid ELSE RomanLoop(n, <<>>)

-----------------------------------------------------------------------------
(* The exported conversion: roman.go *)

\* the table that roman.go declares, under the name romanMap as well
romanNumeralsMap ==
  << [value |-> 1000, key |-> <<"m">>],
     [value |-> 900,  key |-> <<"c","m">>],
     [value |-> 500,  key |-> <<"d">>],
     [value |-> 400,  key |-> <<"c","d">>],
     [value |-> 100,  key |-> <<"c">>],
     [value |-> 90,   key |-> <<"x","c">>],
     [value |-> 50,   key |-> <<"l">>],
     [value |-> 40,   key |-> <<"x","l">>],
     [value |-> 10,   key |-> <<"x">>],
     [value |-> 9,    key |-> <<"i","x">>],
     [value |-> 5,    key |-> <<"v">>],
     [value |-> 4,    key |-> <<"i","v">>],
     [value |-> 1,    key |-> <<"i">>] >>

\* the inner for-range of RomanNumerals: the first entry with
\* n >= rn.value, where the loop breaks
RomanNumeralsPick(n) ==
  CHOOSE j \in 1..Len(romanNumeralsMap) :
    /\ n >= romanNumeralsMap[j].value
    /\ \A k \in 1..(j - 1) : n < romanNumeralsMap[k].value

RECURSIVE RomanNumeralsLoop(_, _)
\* for n > 0 { ... s += rn.key; n -= rn.value ... }
RomanNumeralsLoop(n, s) ==
  IF n > 0
  THEN LET rn == romanNumeralsMap[RomanNumeralsPick(n)]
       IN  RomanNumeralsLoop(n - rn.value, s \o rn.key)
  ELSE s

\* the guard of convertToRoman put in front of the loop
RomanNumerals_Guarded(n) ==
  IF n <= 0 THEN Invalid ELSE RomanNumeralsLoop(n, <<>>)

\* s := ""; the loop; return s: no guard, so the loop is skipped for n <= 0
RomanNumerals(n) == RomanNumeralsLoop(n, <<>>)

-----------------------------------------------------------------------------
(* Placeholder substitution: tree.go 361-398 *)

\* length of the run of spaces of s that starts at position p (1-based)
SpaceRun(s, p) ==
  LET stop == {q \in p..Len(s) : s[q] # SP}
  IN  IF stop = {} THEN Len(s) - p + 1
      ELSE (CHOOSE q \in stop : \A r \in stop : q <= r) - p

\* the numbers k of spaces with which " *" + placeholder matches s at p
MatchAt(s, p, placeholder) ==
  {k \in 0..SpaceRun(s, p) : p + k <= Len(s) /\ s[p + k] = placeholder}

\* a pattern that is the placeholder alone, without the " *" before it
FindIndex_NoSpaces(s, placeholder) ==
  LET starts == {p \in 1..Len(s) : s[p] = placeholder}
  IN  IF starts = {} THEN <<>>
      ELSE LET p == CHOOSE x \in starts : \A y \in starts : x <= y
           IN  <<p - 1, p>>

\* regexp " *placeholder", FindIndex: the leftmost match, the greedy " *"
\* taking as many spaces as it can; <<>> stands for nil, otherwise the
\* 0-based half-open byte range <<loc[0], loc[1]>>
FindIndex(s, placeholder) ==
  LET starts == {p \in 1..Len(s) : MatchAt(s, p, placeholder) # {}}
  IN  IF starts = {} THEN <<>>
      ELSE LET p == CHOOSE x \in starts : \A y \in starts : x <= y
               ks == MatchAt(s, p, placeholder)
               k == CHOOSE x \in ks : \A y \in ks : x >= y
           IN  <<p - 1, p + k>>

replaceNumberPlaceholder(s, placeholder, actualValue) ==
  LET loc == FindIndex(s, placeholder)
  IN  IF loc = <<>> THEN s
      ELSE SubSeq(s, 1, loc[1])
             \o SprintfPad(loc[2] - loc[1], actualValue)
             \o SubSeq(s, loc[2] + 1, Len(s))

\* a switch that tests the upper-case letter marker before the lower-case one
replaceNumberListMarkup_UpperFirst(markup, index) ==
  IF Contains(markup, "1")
  THEN replaceNumberPlaceholder(markup, "1", Itoa(index))
  ELSE IF Contains(markup, "A")
  THEN replaceNumberPlaceholder(markup, "A", ToUpper(convertToAlpha(index)))
  ELSE IF Contains(markup, "a")
  THEN replaceNumberPlaceholder(markup, "a", convertToAlpha(index))
  ELSE IF Contains(markup, "i")
  THEN replaceNumberPlaceholder(markup, "i", convertToRoman(index))
  ELSE IF Contains(markup, "I")
  THEN replaceNumberPlaceholder(markup, "I", ToUpper(convertToRoman(index)))
  ELSE markup

replaceNumberListMarkup(markup, index) ==
  IF Contains(markup, "1")
  THEN replaceNumberPlaceholder(markup, "1", Itoa(index))
  ELSE IF Contains(markup, "a")
  THEN replaceNumberPlaceholder(markup, "a", convertToAlpha(index))
  ELSE IF Contains(markup, "A")
  THEN replaceNumberPlaceholder(markup, "A", ToUpper(convertToAlpha(index)))
  ELSE IF Contains(markup, "i")
  THEN replaceNumberPlaceholder(markup, "i", convertToRoman(index))
  ELSE IF Contains(markup, "I")
  THEN replaceNumberPlaceholder(markup, "I", ToUpper(convertToRoman(index)))
  ELSE markup \* this markup did not contain a number field

-----------------------------------------------------------------------------
(* The style registry: tree.go 24-77 *)

ASCIIStyle == 0
BoxStyle == 1
BoxBoldStyle == 2
ASCIINarrowStyle == 3
BoxNarrowStyle == 4
BoxBoldNarrowStyle == 5
WhiteSpaceStyle == 6
ASCIIBulletStyle == 7
BulletStyle == 8
OrderedStyle == 9
NumberStyle == 10
AlphaStyle == 11
AlphaUCStyle == 12
RomanStyle == 13
RomanUCStyle == 14

\* indexes into a structural scaffolding's markup (0-based, as in the code)
midBranchScaffold == 0
lastBranchScaffold == 1
bypassBranchScaffold == 2
noBranchScaffold == 3

\* indexes into a list scaffolding's markup (0-based, as in the code)
indentList == 0
levelList == 1

\* markup[i] of the code, whose slices are 0-based
At(markup, i) == markup[i + 1]

Scaffolding(isList, markup) == [isList |-> isList, markup |-> markup]

\* the initial value of the package variable scaffoldingDict
BuiltinStyles ==
  << Scaffolding(FALSE, << <<"|","-","-"," ">>, <<"'","-","-"," ">>,
                           <<"|"," "," "," ">>, <<" "," "," "," ">> >>),
     Scaffolding(FALSE, << <<"u251C","u2500","u2500"," ">>,
                           <<"u2570","u2500","u2500"," ">>,
                           <<"u2502"," "," "," ">>, <<" "," "," "," ">> >>),
     Scaffolding(FALSE, << <<"u2523","u2501","u2501"," ">>,
                           <<"u2517","u2501","u2501"," ">>,
                           <<"u2503"," "," "," ">>, <<" "," "," "," ">> >>),
     Scaffolding(FALSE, << <<"|","-">>, <<"'","-">>, <<"|"," ">>, <<" "," ">> >>),
     Scaffolding(FALSE, << <<"u251C"," ">>, <<"u2570"," ">>,
                           <<"u2502"," ">>, <<" "," ">> >>),
     Scaffolding(FALSE, << <<"u2523"," ">>, <<"u2517"," ">>,
                           <<"u2503"," ">>, <<" "," ">> >>),
     Scaffolding(TRUE,  << <<" "," "," "," ">>, <<" "," "," "," ">> >>),
     Scaffolding(TRUE,  << <<" "," ">>, <<"*"," ">>, <<"+"," ">>, <<"-"," ">> >>),
     Scaffolding(TRUE,  << <<" "," ">>, <<"u25CF"," ">>, <<"u25CB"," ">>,
                           <<"u25A0"," ">>, <<"u25A1"," ">> >>),
     Scaffolding(TRUE,  << <<" "," "," "," ">>, <<" ","1","."," ">>,
                           <<" ","a","."," ">>, <<" ","i","."," ">>,
                           <<" ","A","."," ">>, <<" ","I","."," ">> >>),
     Scaffolding(TRUE,  << <<" "," "," "," ">>, <<" ","1","."," ">> >>),
     Scaffolding(TRUE,  << <<" "," "," "," ">>, <<" ","a","."," ">> >>),
     Scaffolding(TRUE,  << <<" "," "," "," ">>, <<" ","A","."," ">> >>),
     Scaffolding(TRUE,  << <<" "," "," "," "," "," ">>,
                           <<" "," "," ","i","."," ">> >>),
     Scaffolding(TRUE,  << <<" "," "," "," "," "," ">>,
                           <<" "," "," ","I","."," ">> >>) >>

-----------------------------------------------------------------------------
(* The renderer: tree.go 285-359 *)

Ok(s) == [panic |-> FALSE, s |-> s]
\* a Go run-time panic: the call returns nothing
Panicked == [panic |-> TRUE, s |-> <<>>]

\* a labelPadding without the depth == 0 case
labelPadding_NoRootCase(tree, depth, index, scaffold) ==
  IF scaffold.isList
  THEN IF Len(scaffold.markup) - 1 = 0 THEN Panicked
       ELSE LET offset == (IF depth = 0 THEN 0 ELSE depth - 1)
                            % (Len(scaffold.markup) - 1)
            IN  Ok(replaceNumberListMarkup(
                     At(scaffold.markup, levelList + offset), index + 1))
  ELSE IF index = Len(Branches[tree]) - 1
  THEN Ok(At(scaffold.markup, lastBranchScaffold))
  ELSE Ok(At(scaffold.markup, midBranchScaffold))

\* a labelPadding that numbers the branches from 0
labelPadding_ZeroBased(tree, depth, index, scaffold) ==
  IF depth = 0 THEN Ok(<<>>)
  ELSE IF scaffold.isList
  THEN IF Len(scaffold.markup) - 1 = 0 THEN Panicked
       ELSE LET offset == (depth - 1) % (Len(scaffold.markup) - 1)
            IN  Ok(replaceNumberListMarkup(
                     At(scaffold.markup, levelList + offset), index))
  ELSE IF index = Len(Branches[tree]) - 1
  THEN Ok(At(scaffold.markup, lastBranchScaffold))
  ELSE Ok(At(scaffold.markup, midBranchScaffold))

\* tree is the parent, index the 0-based position of the branch in it
labelPadding(tree, depth, index, scaffold) ==
  IF depth = 0 THEN Ok(<<>>)
  ELSE IF scaffold.isList
  THEN \* offset := (depth - 1) % (len(scaffold.markup) - 1): integer divide
       \* by zero panics
       IF Len(scaffold.markup) - 1 = 0 THEN Panicked
       ELSE LET offset == (depth - 1) % (Len(scaffold.markup) - 1)
            IN  Ok(replaceNumberListMarkup(
                     At(scaffold.markup, levelList + offset), index + 1))
  ELSE IF index = Len(Branches[tree]) - 1
  THEN Ok(At(scaffold.markup, lastBranchScaffold))
  ELSE Ok(At(scaffold.markup, midBranchScaffold))

\* a flowPadding that tests the branch against the wrong end of the list
flowPadding_FirstNotLast(tree, depth, index, scaffold) ==
  IF depth = 0 THEN <<>>
  ELSE IF scaffold.isList THEN At(scaffold.markup, indentList)
  ELSE IF index = 0
  THEN At(scaffold.markup, noBranchScaffold)
  ELSE At(scaffold.markup, bypassBranchScaffold)

flowPadding(tree, depth, index, scaffold) ==
  IF depth = 0 THEN <<>>
  ELSE IF scaffold.isList THEN At(scaffold.markup, indentList)
  ELSE IF index = Len(Branches[tree]) - 1
  THEN At(scaffold.markup, noBranchScaffold)
  ELSE At(scaffold.markup, bypassBranchScaffold)

\* an inner loop that gives every line the prefix of the first
WriteLines_LabelPrefixOnly(lines, first, flow) ==
  Flatten([lineIndex \in 1..Len(lines) |->
             first \o lines[lineIndex] \o <<NL>>])

\* the inner loop of print over the lines of one label: what it writes to buf
WriteLines(lines, first, flow) ==
  Flatten([lineIndex \in 1..Len(lines) |->
             (IF lineIndex = 1 THEN first ELSE flow)
               \o lines[lineIndex] \o <<NL>>])

RECURSIVE printFrom(_, _, _, _, _)
\* the iterations index, index+1, ... of the loop of Tree.print over
\* tree.Branches, with the recursive call on each branch: what they write to
\* buf, or the panic that ends them
printFrom(tree, index, depth, padding, scaffold) ==
  IF index >= Len(Branches[tree]) THEN Ok(<<>>)
  ELSE LET branch == Branches[tree][index + 1]
           lp == labelPadding(tree, depth, index, scaffold)
           prefix == padding \o flowPadding(tree, depth, index, scaffold)
       IN  IF lp.panic THEN Panicked
           ELSE LET own == WriteLines(Split(Label[branch], NL),
                                      padding \o lp.s, prefix)
                    sub == printFrom(branch, 0, depth + 1, prefix, scaffold)
                    rest == IF sub.panic THEN Panicked
                            ELSE printFrom(tree, index + 1, depth, padding,
                                           scaffold)
                IN  IF rest.panic THEN Panicked
                    ELSE Ok(own \o sub.s \o rest.s)

print(tree, depth, padding, scaffold) ==
  printFrom(tree, 0, depth, padding, scaffold)

\* a sanity check that lets the registry length through
ResolveStyle_OffByOne(style) ==
  IF style < 0 \/ style > Len(scaffoldingDict) THEN BoxStyle ELSE style

\* the sanity check of PrintStyle
ResolveStyle(style) ==
  IF style < 0 \/ style >= Len(scaffoldingDict) THEN BoxStyle ELSE style

\* scaffoldingDict[style]: an index outside the slice panics
LookupStyle(style) ==
  IF style < 0 \/ style >= Len(scaffoldingDict) THEN Panicked
  ELSE [panic |-> FALSE, s |-> At(scaffoldingDict, style)]

\* what PrintStyle returns, or the panic that ends it
PrintStyleResult(tree, style) ==
  LET scaffold == LookupStyle(ResolveStyle(style))
  IN  IF scaffold.panic THEN Panicked
      ELSE print(tree, 0, <<>>, scaffold.s)

-----------------------------------------------------------------------------
(* Sorting: tree.go 151-156 *)

\* byte order of the runes the labels of the model use
ByteOrder == <<NL, SP>> \o Digits \o Upper \o Lower
Ord(c) == CHOOSE i \in 1..Len(ByteOrder) : ByteOrder[i] = c

\* the < of Go strings: lexicographic by bytes
StringLess(a, b) ==
  \/ \E i \in 1..Len(a) :
       /\ i <= Len(b)
       /\ \A j \in 1..(i - 1) : a[j] = b[j]
       /\ Ord(a[i]) < Ord(b[i])
  \/ Len(a) < Len(b) /\ \A j \in 1..Len(a) : a[j] = b[j]

\* a less function that orders the labels downwards
LabelLess_Reversed(x, y) == StringLess(Label[y], Label[x])

\* the less function Sort hands to sort.SliceStable
LabelLess(x, y) == StringLess(Label[x], Label[y])

\* an insertion that also moves an element past its equals
InsertLeft_PastEquals(seq, j) ==
  LET RECURSIVE Move(_, _)
      Move(q, k) ==
        IF k > 1 /\ ~LabelLess(q[k - 1], q[k])
        THEN Move([q EXCEPT ![k] = q[k - 1], ![k - 1] = q[k]], k - 1)
        ELSE q
  IN  Move(seq, j)

RECURSIVE InsertLeft(_, _)
\* for j := i; j > a && less(j, j-1); j-- { swap(j, j-1) }
InsertLeft(seq, j) ==
  IF j > 1 /\ LabelLess(seq[j], seq[j - 1])
  THEN InsertLeft([seq EXCEPT ![j] = seq[j - 1], ![j - 1] = seq[j]], j - 1)
  ELSE seq

RECURSIVE InsertionSort(_, _)
\* sort.SliceStable on fewer than 20 elements is one insertion sort
InsertionSort(seq, i) ==
  IF i > Len(seq) THEN seq ELSE InsertionSort(InsertLeft(seq, i), i + 1)

SliceStable(seq) == InsertionSort(seq, 2)

\* BranchLess functions handed to SortCustom: by length of label, as in
\* TestCustomSort, and by label downwards
CustomLess(less, x, y) ==
  IF less = "length" THEN Len(Label[x]) < Len(Label[y])
  ELSE StringLess(Label[y], Label[x])

\* an insertion that also moves an element past its equals
InsertLeftCustom_PastEquals(less, seq, j) ==
  LET RECURSIVE Move(_, _)
      Move(q, k) ==
        IF k > 1 /\ ~CustomLess(less, q[k - 1], q[k])
        THEN Move([q EXCEPT ![k] = q[k - 1], ![k - 1] = q[k]], k - 1)
        ELSE q
  IN  Move(seq, j)

RECURSIVE InsertLeftCustom(_, _, _)
InsertLeftCustom(less, seq, j) ==
  IF j > 1 /\ CustomLess(less, seq[j], seq[j - 1])
  THEN InsertLeftCustom(less,
                        [seq EXCEPT ![j] = seq[j - 1], ![j - 1] = seq[j]],
                        j - 1)
  ELSE seq

RECURSIVE InsertionSortCustom(_, _, _)
InsertionSortCustom(less, seq, i) ==
  IF i > Len(seq) THEN seq
  ELSE InsertionSortCustom(less, InsertLeftCustom(less, seq, i), i + 1)

SliceStableCustom(less, seq) == InsertionSortCustom(less, seq, 2)

-----------------------------------------------------------------------------
(* State and operations *)

Nodes == 1..MaxNodes
\* the nodes that exist
Live == 1..used

\* the last call and what it returned: a PrintStyle call, a style
\* registration, or a call of one of the numbering helpers; the other
\* operations return nothing the model reads
NoCall == [op |-> "none"]

\* root := NewTree(), and the package variable scaffoldingDict
InitProgram ==
  /\ Label = [n \in Nodes |-> <<>>]
  /\ Branches = [n \in Nodes |-> <<>>]
  /\ used = 1
  /\ scaffoldingDict = BuiltinStyles

Init == InitProgram /\ last = NoCall

AddBranch(tree, branchName) ==
  /\ used < MaxNodes
  /\ LET childTree == used + 1
     IN  /\ used' = childTree
         /\ Label' = [Label EXCEPT ![childTree] = branchName]
         /\ Branches' = [Branches EXCEPT ![tree] = Append(@, childTree)]
  /\ last' = NoCall
  /\ UNCHANGED scaffoldingDict

Sort(tree) ==
  /\ Branches' = [Branches EXCEPT ![tree] = SliceStable(@)]
  /\ last' = [op |-> "Sort", tree |-> tree]
  /\ UNCHANGED <<Label, used, scaffoldingDict>>

RECURSIVE DeepSortLoop(_, _, _)
\* DeepSort on the branch lists B: tree.Sort(), then DeepSort of each branch
DeepSortResult(B, tree) ==
  DeepSortLoop([B EXCEPT ![tree] = SliceStable(@)], tree, 0)
DeepSortLoop(B, tree, index) ==
  IF index >= Len(B[tree]) THEN B
  ELSE DeepSortLoop(DeepSortResult(B, B[tree][index + 1]), tree, index + 1)

DeepSort(tree) ==
  /\ Branches' = DeepSortResult(Branches, tree)
  /\ last' = [op |-> "DeepSort", tree |-> tree]
  /\ UNCHANGED <<Label, used, scaffoldingDict>>

SortCustom(tree, less) ==
  /\ Branches' = [Branches EXCEPT ![tree] = SliceStableCustom(less, @)]
  /\ last' = [op |-> "SortCustom", tree |-> tree, less |-> less]
  /\ UNCHANGED <<Label, used, scaffoldingDict>>

RECURSIVE DeepSortCustomLoop(_, _, _, _)
DeepSortCustomResult(B, tree, less) ==
  DeepSortCustomLoop([B EXCEPT ![tree] = SliceStableCustom(less, @)],
                     tree, less, 0)
DeepSortCustomLoop(B, tree, less, index) ==
  IF index >= Len(B[tree]) THEN B
  ELSE DeepSortCustomLoop(
         DeepSortCustomResult(B, B[tree][index + 1], less),
         tree, less, index + 1)

DeepSortCustom(tree, less) ==
  /\ Branches' = DeepSortCustomResult(Branches, tree, less)
  /\ last' = [op |-> "DeepSortCustom", tree |-> tree, less |-> less]
  /\ UNCHANGED <<Label, used, scaffoldingDict>>

\* a loop that keeps the depth of the branch it saw last
DepthLoop_LastBranch(tree, index, depth) ==
  LET RECURSIVE D(_)
      D(n) == IF Branches[n] = <<>> THEN 0
              ELSE 1 + D(Branches[n][Len(Branches[n])])
  IN  D(tree)

RECURSIVE DepthLoop(_, _, _)
\* the loop of Depth from index on, depth being the maximum so far
DepthLoop(tree, index, depth) ==
  IF index >= Len(Branches[tree]) THEN depth
  ELSE LET branchDepth == 1 + DepthLoop(Branches[tree][index + 1], 0, 0)
       IN  DepthLoop(tree, index + 1,
                     IF branchDepth > depth THEN branchDepth ELSE depth)

DepthResult(tree) == DepthLoop(tree, 0, 0)

Depth(tree) ==
  /\ last' = [op |-> "Depth", tree |-> tree, ret |-> DepthResult(tree)]
  /\ UNCHANGED <<Label, Branches, used, scaffoldingDict>>

\* an AddStructuralStyle that puts the new entry in front
AddStructuralStyle_Prepend(middleBranch, lastBranch, bypassBranch, noBranch) ==
  /\ Len(scaffoldingDict) < Len(BuiltinStyles) + MaxCustom
  /\ scaffoldingDict' =
       <<Scaffolding(FALSE, <<middleBranch, lastBranch,
                              bypassBranch, noBranch>>)>> \o scaffoldingDict
  /\ last' = [op |-> "AddStructuralStyle",
              ret |-> Len(scaffoldingDict') - 1]
  /\ UNCHANGED <<Label, Branches, used>>

AddStructuralStyle(middleBranch, lastBranch, bypassBranch, noBranch) ==
  /\ Len(scaffoldingDict) < Len(BuiltinStyles) + MaxCustom
  /\ scaffoldingDict' =
       Append(scaffoldingDict,
              Scaffolding(FALSE, <<middleBranch, lastBranch,
                                   bypassBranch, noBranch>>))
  /\ last' = [op |-> "AddStructuralStyle",
              ret |-> Len(scaffoldingDict') - 1]
  /\ UNCHANGED <<Label, Branches, used>>

\* an AddListStyle that takes the place of the entry of BoxStyle
AddListStyle_Overwrite(indent, bullets) ==
  /\ Len(scaffoldingDict) < Len(BuiltinStyles) + MaxCustom
  /\ scaffoldingDict' =
       [scaffoldingDict EXCEPT ![BoxStyle + 1] =
          Scaffolding(TRUE, <<indent>> \o bullets)]
  /\ last' = [op |-> "AddListStyle", ret |-> BoxStyle]
  /\ UNCHANGED <<Label, Branches, used>>

AddListStyle(indent, bullets) ==
  /\ Len(scaffoldingDict) < Len(BuiltinStyles) + MaxCustom
  /\ LET styleIndex == Len(scaffoldingDict)
         appended == Append(scaffoldingDict, Scaffolding(TRUE, <<indent>>))
     IN  /\ scaffoldingDict' =
              [appended EXCEPT ![styleIndex + 1].markup = @ \o bullets]
         /\ last' = [op |-> "AddListStyle", ret |-> styleIndex]
  /\ UNCHANGED <<Label, Branches, used>>

PrintStyle(tree, style) ==
  /\ LET r == PrintStyleResult(tree, style)
     IN  last' = [op |-> "PrintStyle", tree |-> tree, style |-> style,
                  panic |-> r.panic, str |-> r.s]
  /\ UNCHANGED <<Label, Branches, used, scaffoldingDict>>

\* tree := NewTree(): one more tree without label or branches
NewTree ==
  /\ used < MaxNodes
  /\ used' = used + 1
  /\ last' = NoCall
  /\ UNCHANGED <<Label, Branches, scaffoldingDict>>

\* the trees in the branch list of n, and the trees below n
Children(n) == {Branches[n][i] : i \in 1..Len(Branches[n])}
RECURSIVE Below(_, _)
Below(S, k) ==
  IF k = 0 THEN S ELSE Below(S \cup UNION {Children(n) : n \in S}, k - 1)
Descendants(n) == Below(Children(n), MaxNodes)

\* an AddTreeAsBranch that leaves the receiver alone when other is the
\* receiver or one of its ancestors
AddTreeAsBranch_CycleChecked(tree, other) ==
  /\ Branches' =
       [Branches EXCEPT ![tree] =
          IF Label[other] = <<>> THEN @ \o Branches[other]
          ELSE IF tree = other \/ tree \in Descendants(other) THEN @
          ELSE Append(@, other)]
  /\ last' = [op |-> "AddTreeAsBranch"]
  /\ UNCHANGED <<Label, used, scaffoldingDict>>

\* an AddTreeAsBranch that never splices
AddTreeAsBranch_AlwaysInsert(tree, other) ==
  /\ Branches' = [Branches EXCEPT ![tree] = Append(@, other)]
  /\ last' = [op |-> "AddTreeAsBranch"]
  /\ UNCHANGED <<Label, used, scaffoldingDict>>

AddTreeAsBranch(tree, other) ==
  /\ Branches' =
       [Branches EXCEPT ![tree] =
          IF Label[other] = <<>> THEN @ \o Branches[other]
          ELSE Append(@, other)]
  /\ last' = [op |-> "AddTreeAsBranch"]
  /\ UNCHANGED <<Label, used, scaffoldingDict>>

\* The recursion of print, one activation per frame: tree, the index of the
\* loop over tree.Branches, depth and padding. The frames and buf live in
\* last while the PrintStyle call runs.
Running == last.op = "print"

\* the goroutine stack holds this many activations of print
MaxStack == MaxGraftNodes + 1

\* PrintStyle up to the call of tree.print
PrintStyleCall(tree, style) ==
  /\ LET scaffold == LookupStyle(ResolveStyle(style))
     IN  last' =
           IF scaffold.panic
           THEN [op |-> "PrintStyle", tree |-> tree, style |-> style,
                 panic |-> TRUE, str |-> <<>>]
           ELSE [op |-> "print", tree |-> tree, style |-> style,
                 scaffold |-> scaffold.s, buf |-> <<>>,
                 stack |-> <<[tree |-> tree, index |-> 0, depth |-> 0,
                              padding |-> <<>>]>>]
  /\ UNCHANGED <<Label, Branches, used, scaffoldingDict>>

\* one iteration of the loop of the innermost print: the lines of the branch
\* are written and print is called on the branch; the runtime ends the
\* program when the stack is exhausted
PrintBranch ==
  /\ Running
  /\ LET frame == last.stack[Len(last.stack)]
         tree == frame.tree
     IN  /\ frame.index < Len(Branches[tree])
         /\ LET branch == Branches[tree][frame.index + 1]
                first == labelPadding(tree, frame.depth, frame.index,
                                      last.scaffold)
                flow == flowPadding(tree, frame.depth, frame.index,
                                    last.scaffold)
            IN  last' =
                  IF first.panic
                  THEN [op |-> "PrintStyle", tree |-> last.tree,
                        style |-> last.style, panic |-> TRUE, str |-> <<>>]
                  ELSE IF Len(last.stack) >= MaxStack
                  THEN [op |-> "stack overflow", tree |-> last.tree,
                        style |-> last.style]
                  ELSE [last EXCEPT
                          !.buf = @ \o WriteLines(Split(Label[branch], NL),
                                                  frame.padding \o first.s,
                                                  frame.padding \o flow),
                          !.stack =
                            Append([@ EXCEPT ![Len(@)].index = @ + 1],
                                   [tree |-> branch, index |-> 0,
                                    depth |-> frame.depth + 1,
                                    padding |-> frame.padding \o flow])]
  /\ UNCHANGED <<Label, Branches, used, scaffoldingDict>>

\* the loop of the innermost print is over: it returns, and when it was the
\* outermost one PrintStyle returns buf.String()
PrintReturn ==
  /\ Running
  /\ LET frame == last.stack[Len(last.stack)]
     IN  /\ frame.index >= Len(Branches[frame.tree])
         /\ last' =
              IF Len(last.stack) = 1
              THEN [op |-> "PrintStyle", tree |-> last.tree,
                    style |-> last.style, panic |-> FALSE, str |-> last.buf]
              ELSE [last EXCEPT
                      !.stack = SubSeq(@, 1, Len(@) - 1)]
  /\ UNCHANGED <<Label, Branches, used, scaffoldingDict>>

-----------------------------------------------------------------------------
(* The callers of the model *)

\* the labels the caller gives to the branches it creates, in turn
LabelArgs == << <<"b">>, <<"a", NL, "c">>, <<"a">> >>
NextLabel == LabelArgs[((used - 1) % Len(LabelArgs)) + 1]

\* built-in styles of each shape: structural of two widths, and list styles
\* of one, three and five templates, with and without numbering; and the
\* identifier of the first custom style
StyleArgs ==
  {ASCIIStyle, BoxStyle, ASCIINarrowStyle, WhiteSpaceStyle, ASCIIBulletStyle,
   OrderedStyle, RomanStyle, Len(BuiltinStyles)}

\* the default style, the custom styles, and one identifier on each side of
\* the registry
CustomStyleArgs ==
  {-1, BoxStyle} \cup (Len(BuiltinStyles)..Len(scaffoldingDict))

\* the arguments of ExampleAddStructuralStyle
StructuralArgs == << <<">","-"," ">>, <<"*","-"," ">>,
                    <<"}"," "," ">>, <<".",".",".">> >>

\* bullets given to AddListStyle: two that alternate, and none
CycleBullets == << <<"*"," ">>, <<" ","i",")">> >>
BulletArgs == { <<>>, CycleBullets }

\* trees are built, sorted and printed in the built-in styles and in a
\* custom list style of two templates
Next ==
  \/ \E t \in Live : AddBranch(t, NextLabel)
  \/ \E t \in Live : Sort(t)
  \/ AddListStyle(<<" "," ">>, CycleBullets)
  \/ \E t \in Live, s \in StyleArgs : PrintStyle(t, s)

Spec == Init /\ [][Next]_vars

\* trees are built, styles are registered, and trees are printed in the
\* custom styles
NextStyle ==
  \/ \E t \in Live : AddBranch(t, NextLabel)
  \/ AddStructuralStyle(StructuralArgs[1], StructuralArgs[2],
                        StructuralArgs[3], StructuralArgs[4])
  \/ \E b \in BulletArgs : AddListStyle(<<" "," ">>, b)
  \/ \E t \in Live, s \in CustomStyleArgs : PrintStyle(t, s)

SpecStyle == Init /\ [][NextStyle]_vars

\* the number of entries of all branch lists, and how many of them
\* AddTreeAsBranch has added: AddBranch adds one for each tree it labels
RECURSIVE CountBranches(_)
CountBranches(n) ==
  IF n = 0 THEN 0 ELSE Len(Branches[n]) + CountBranches(n - 1)
Grafted ==
  CountBranches(MaxNodes) - Cardinality({n \in Live : Label[n] # <<>>})

\* the program is between calls: it has not ended, and no PrintStyle runs
Idle == last.op \notin {"print", "stack overflow"}

\* trees are created, built and grafted into each other, and printed one
\* activation of print at a time
NextGraft ==
  \/ Idle /\ used < MaxGraftNodes
          /\ Cardinality({n \in Live : Label[n] = <<>>}) < MaxRoots
          /\ NewTree
  \/ Idle /\ used < MaxGraftNodes
          /\ \E t \in Live : AddBranch(t, NextLabel)
  \/ Idle /\ \E t, o \in Live :
       /\ Grafted + (IF Label[o] = <<>> THEN Len(Branches[o]) ELSE 1)
            <= MaxGrafted
       /\ AddTreeAsBranch(t, o)
  \/ Idle /\ PrintStyleCall(1, BoxStyle)
  \/ PrintBranch
  \/ PrintReturn

\* a PrintStyle call that has begun goes on while it can
SpecGraft ==
  Init /\ [][NextGraft]_vars /\ WF_vars(PrintBranch \/ PrintReturn)

\* the BranchLess functions of the model
LessArgs == {"length", "downwards"}

\* trees are built, sorted in each of the four ways and measured
NextSort ==
  \/ \E t \in Live : AddBranch(t, NextLabel)
  \/ \E t \in Live : Sort(t)
  \/ \E t \in Live : DeepSort(t)
  \/ \E t \in Live, less \in LessArgs : SortCustom(t, less)
  \/ \E t \in Live, less \in LessArgs : DeepSortCustom(t, less)
  \/ \E t \in Live : Depth(t)

SpecSort == Init /\ [][NextSort]_vars

-----------------------------------------------------------------------------
(* The numbering helpers, each applied to one argument list *)

ConvertToAlpha ==
  /\ last.op = "call" /\ last.fn = "convertToAlpha"
  /\ last' = [op |-> "convertToAlpha", n |-> last.n,
               str |-> convertToAlpha(last.n)]
  /\ UNCHANGED <<Label, Branches, used, scaffoldingDict>>

ConvertToRoman ==
  /\ last.op = "call" /\ last.fn = "convertToRoman"
  /\ last' = [op |-> "convertToRoman", n |-> last.n,
               str |-> convertToRoman(last.n)]
  /\ UNCHANGED <<Label, Branches, used, scaffoldingDict>>

CallRomanNumerals ==
  /\ last.op = "call" /\ last.fn = "RomanNumerals"
  /\ last' = [op |-> "RomanNumerals", n |-> last.n,
               str |-> RomanNumerals(last.n)]
  /\ UNCHANGED <<Label, Branches, used, scaffoldingDict>>

ReplaceNumberPlaceholder ==
  /\ last.op = "call" /\ last.fn = "replaceNumberPlaceholder"
  /\ last' = [op |-> "replaceNumberPlaceholder", s |-> last.s,
               placeholder |-> last.placeholder,
               actualValue |-> last.actualValue,
               str |-> replaceNumberPlaceholder(last.s, last.placeholder,
                                                last.actualValue)]
  /\ UNCHANGED <<Label, Branches, used, scaffoldingDict>>

ReplaceNumberListMarkup ==
  /\ last.op = "call" /\ last.fn = "replaceNumberListMarkup"
  /\ last' = [op |-> "replaceNumberListMarkup", markup |-> last.markup,
               index |-> last.index,
               str |-> replaceNumberListMarkup(last.markup, last.index)]
  /\ UNCHANGED <<Label, Branches, used, scaffoldingDict>>

\* templates of TestReplaceNumberPlaceholder, and templates without the
\* placeholder, with two of them, and with spaces that do not touch it
TemplateArgs ==
  { <<"1">>, <<" "," ","1">>, <<"("," "," ","1",")">>, <<>>, <<" "," ">>,
    <<"(","a",")">>, <<" ","1"," "," ","1">>, <<" ","x"," ","1"," ">>,
    <<" "," ","a","1">>, <<"1"," ","a">> }
PlaceholderArgs == {"1", "a"}
ValueArgs ==
  { <<>>, <<"x">>, <<"x","x">>, <<"x","x","x">>, <<"x","x","x","x">>,
    <<"1","0">> }

\* templates of the built-in styles and of TestReplaceNumberListMarkup,
\* bullets without a marker, and templates with several markers
MarkupArgs ==
  { <<" ","1","."," ">>, <<" ","a","."," ">>, <<" ","i","."," ">>,
    <<" ","A","."," ">>, <<" ","I","."," ">>, <<" "," "," ","i","."," ">>,
    <<"a">>, <<"A">>, <<"i">>, <<"I">>, <<" "," ","I",".">>,
    <<"*"," ">>, <<>>, <<"(","2",")">>,
    <<"a","1">>, <<"1","a">>, <<" ","a"," ","A">>, <<" ","A"," ","a">>,
    <<"I","i">>, <<" ","i","A">>, <<" ","I"," ","i"," ","A"," ","a">>,
    <<"I","-","1">> }

OrdCalls ==
  {[op |-> "call", fn |-> "convertToAlpha", n |-> n] :
     n \in (-MaxNegative)..MaxAlpha}
  \cup {[op |-> "call", fn |-> "convertToRoman", n |-> n] :
     n \in (-MaxNegative)..MaxRoman}
  \cup {[op |-> "call", fn |-> "RomanNumerals", n |-> n] :
     n \in (-MaxNegative)..MaxRoman}
  \cup {[op |-> "call", fn |-> "replaceNumberPlaceholder", s |-> s,
         placeholder |-> ph, actualValue |-> v] :
     s \in TemplateArgs, ph \in PlaceholderArgs, v \in ValueArgs}
  \cup {[op |-> "call", fn |-> "replaceNumberListMarkup", markup |-> m,
         index |-> i] :
     m \in MarkupArgs, i \in (-MaxNegative)..MaxIndex}

InitOrd == InitProgram /\ last \in OrdCalls

NextOrd ==
  \/ ConvertToAlpha
  \/ ConvertToRoman
  \/ CallRomanNumerals
  \/ ReplaceNumberPlaceholder
  \/ ReplaceNumberListMarkup

SpecOrd == InitOrd /\ [][NextOrd]_vars

-----------------------------------------------------------------------------
(* Properties of the numbering helpers, under SpecOrd *)

\* s with the first occurrence of placeholder and the whole run of spaces
\* on its left replaced by value, right-aligned in the width of that span
SpanSubst(s, placeholder, value) ==
  IF ~Contains(s, placeholder) THEN s
  ELSE LET q == CHOOSE x \in 1..Len(s) :
                  s[x] = placeholder /\ \A y \in 1..(x - 1) : s[y] # placeholder
           p == CHOOSE x \in 1..q :
                  /\ \A y \in x..(q - 1) : s[y] = SP
                  /\ (x = 1 \/ s[x - 1] # SP)
           w == q - p + 1
           padded == IF Len(value) <= w
                     THEN [i \in 1..w |->
                             IF i <= w - Len(value) THEN SP
                             ELSE value[i - (w - Len(value))]]
                     ELSE value
       IN  SubSeq(s, 1, p - 1) \o padded \o SubSeq(s, q + 1, Len(s))

\* C5: replaceNumberPlaceholder replaces the first occurrence of the
\* placeholder together with the whole run of spaces on its left by the value
\* left-padded to the width of that span, or by the whole value when it is
\* longer; the text around the span is kept, and a template without the
\* placeholder is returned unchanged.
C5_PlaceholderSubstitution ==
  last.op = "replaceNumberPlaceholder" =>
    /\ last.str = SpanSubst(last.s, last.placeholder, last.actualValue)
    /\ (~Contains(last.s, last.placeholder) => last.str = last.s)
    /\ (last.s = <<" "," ","1">> /\ last.placeholder = "1" =>
          /\ (last.actualValue = <<"x">> => last.str = <<" "," ","x">>)
          /\ (last.actualValue = <<"x","x","x">> => last.str = <<"x","x","x">>)
          /\ (last.actualValue = <<"x","x","x","x">> =>
                last.str = <<"x","x","x","x">>))

\* a value wider than a span of three, with text on both sides of the span
C5_Witness ==
  /\ last.op = "replaceNumberPlaceholder"
  /\ last.s = <<"("," "," ","1",")">>
  /\ last.placeholder = "1"
  /\ last.actualValue = <<"x","x","x","x">>
  /\ last.str = <<"(","x","x","x","x",")">>

Priority == <<"1", "a", "A", "i", "I">>

\* the position in Priority of the marker that governs markup, 0 if none
Governing(markup) ==
  LET present == {j \in 1..Len(Priority) : Contains(markup, Priority[j])}
  IN  IF present = {} THEN 0
      ELSE CHOOSE j \in present : \A k \in present : j <= k

OrdinalFor(j, index) ==
  CASE j = 1 -> Itoa(index)
    [] j = 2 -> convertToAlpha(index)
    [] j = 3 -> ToUpper(convertToAlpha(index))
    [] j = 4 -> convertToRoman(index)
    [] j = 5 -> ToUpper(convertToRoman(index))

\* C6: the marker that governs a template is the first of 1, a, A, i, I that
\* the template contains, wherever the markers stand; only that marker is
\* substituted, and a template with none of them is returned verbatim.
C6_MarkerPriority ==
  last.op = "replaceNumberListMarkup" =>
    LET g == Governing(last.markup)
    IN  IF g = 0 THEN last.str = last.markup
        ELSE last.str =
               SpanSubst(last.markup, Priority[g], OrdinalFor(g, last.index))

\* the marker A stands before the marker a, and a governs
C6_Witness ==
  /\ last.op = "replaceNumberListMarkup"
  /\ last.markup = <<" ","A"," ","a">>
  /\ last.index = 28
  /\ last.str = <<" ","A","a","b">>

LetterIndex(c) == CHOOSE j \in 1..26 : Lower[j] = c

RECURSIVE AlphaValue(_)
\* sum of (letter index 1..26) * 26^position, the last letter at position 0
AlphaValue(str) ==
  IF str = <<>> THEN 0
  ELSE 26 * AlphaValue(SubSeq(str, 1, Len(str) - 1))
         + LetterIndex(str[Len(str)])

\* C7: for n >= 1 convertToAlpha(n) is the bijective base-26 numeral of n
\* over a..z: it reads back as n, distinct n give distinct strings, and
\* 1, 26, 27, 52, 53, 702, 703 give a, z, aa, az, ba, zz, aaa.
C7_AlphaBijective ==
  last.op = "convertToAlpha" /\ last.n >= 1 =>
    /\ Len(last.str) >= 1
    /\ \A i \in 1..Len(last.str) : \E j \in 1..26 : Lower[j] = last.str[i]
    /\ AlphaValue(last.str) = last.n
    /\ \A m \in 1..(last.n - 1) : convertToAlpha(m) # last.str
    /\ (last.n = 1 => last.str = <<"a">>)
    /\ (last.n = 26 => last.str = <<"z">>)
    /\ (last.n = 27 => last.str = <<"a","a">>)
    /\ (last.n = 52 => last.str = <<"a","z">>)
    /\ (last.n = 53 => last.str = <<"b","a">>)
    /\ (last.n = 702 => last.str = <<"z","z">>)
    /\ (last.n = 703 => last.str = <<"a","a","a">>)

C7_Witness ==
  /\ last.op = "convertToAlpha"
  /\ last.n = 703
  /\ last.str = <<"a","a","a">>

RomanLetterValue(c) ==
  CASE c = "i" -> 1 [] c = "v" -> 5 [] c = "x" -> 10 [] c = "l" -> 50
    [] c = "c" -> 100 [] c = "d" -> 500 [] c = "m" -> 1000

RECURSIVE RomanValue(_)
\* the value of a numeral: a letter before a larger one is subtracted
RomanValue(str) ==
  IF str = <<>> THEN 0
  ELSE IF Len(str) >= 2 /\ RomanLetterValue(str[1]) < RomanLetterValue(str[2])
  THEN RomanValue(Tail(str)) - RomanLetterValue(str[1])
  ELSE RomanValue(Tail(str)) + RomanLetterValue(str[1])

RomanDigit(d, one, five, ten) ==
  CASE d = 0 -> <<>>
    [] d = 1 -> <<one>>
    [] d = 2 -> <<one, one>>
    [] d = 3 -> <<one, one, one>>
    [] d = 4 -> <<one, five>>
    [] d = 5 -> <<five>>
    [] d = 6 -> <<five, one>>
    [] d = 7 -> <<five, one, one>>
    [] d = 8 -> <<five, one, one, one>>
    [] d = 9 -> <<one, ten>>

\* the canonical subtractive numeral of n in 1..3999, digit by digit
CanonicalRoman(n) ==
  Repeat(<<"m">>, n \div 1000)
    \o RomanDigit((n \div 100) % 10, "c", "d", "m")
    \o RomanDigit((n \div 10) % 10, "x", "l", "c")
    \o RomanDigit(n % 10, "i", "v", "x")

\* the table entry of the largest value not exceeding n
LargestEntry(n) ==
  CHOOSE rn \in {romanMap[j] : j \in 1..Len(romanMap)} :
    /\ rn.value <= n
    /\ \A j \in 1..Len(romanMap) :
         romanMap[j].value <= n => romanMap[j].value <= rn.value

\* C8: for n >= 1 convertToRoman(n) returns the greedy numeral: the symbol
\* of the largest table value not exceeding n, followed by the numeral of
\* the remainder; its value is n, and for n in 1..3999 it is the canonical
\* subtractive numeral (4 iv, 9 ix, 40 xl, 90 xc, 400 cd, 900 cm,
\* 1994 mcmxciv).
C8_RomanGreedy ==
  last.op = "convertToRoman" /\ last.n >= 1 =>
    /\ LET rn == LargestEntry(last.n)
       IN  last.str = rn.key \o (IF last.n = rn.value THEN <<>>
                                 ELSE convertToRoman(last.n - rn.value))
    /\ RomanValue(last.str) = last.n
    /\ (last.n <= 3999 => last.str = CanonicalRoman(last.n))
    /\ (last.n = 4 => last.str = <<"i","v">>)
    /\ (last.n = 9 => last.str = <<"i","x">>)
    /\ (last.n = 40 => last.str = <<"x","l">>)
    /\ (last.n = 90 => last.str = <<"x","c">>)
    /\ (last.n = 400 => last.str = <<"c","d">>)
    /\ (last.n = 900 => last.str = <<"c","m">>)
    /\ (last.n = 1994 => last.str = <<"m","c","m","x","c","i","v">>)

C8_Witness ==
  /\ last.op = "convertToRoman"
  /\ last.n = 1994
  /\ last.str = <<"m","c","m","x","c","i","v">>

\* C9: for n <= 0 convertToAlpha(n) and convertToRoman(n) return "-", and a
\* template governed by a, A, i or I substituted with index 0 has "-" in
\* place of the marker.
C9_InvalidSentinel ==
  /\ (last.op = "convertToAlpha" /\ last.n <= 0 => last.str = <<"-">>)
  /\ (last.op = "convertToRoman" /\ last.n <= 0 => last.str = <<"-">>)
  /\ (last.op = "replaceNumberListMarkup" /\ last.index = 0
        /\ Governing(last.markup) >= 2 =>
          last.str = SpanSubst(last.markup,
                               Priority[Governing(last.markup)], <<"-">>))

\* index 0 in the template of RomanStyle
C9_Witness ==
  /\ last.op = "replaceNumberListMarkup"
  /\ last.markup = <<" "," "," ","i","."," ">>
  /\ last.index = 0
  /\ last.str = <<" "," "," ","-","."," ">>

\* C21: for every n >= 1 RomanNumerals(n) and convertToRoman(n) return the
\* same string, and for every n <= 0 they differ: RomanNumerals returns the
\* empty string, convertToRoman the "-" marker. Stated of what either call
\* has returned, against the other function on the same argument.
C21_RomanNumeralsAgree ==
  /\ last.op = "RomanNumerals" =>
        /\ last.n >= 1 => last.str = convertToRoman(last.n)
        /\ last.n <= 0 => /\ last.str = <<>>
                          /\ convertToRoman(last.n) = <<"-">>
                          /\ last.str # convertToRoman(last.n)
  /\ last.op = "convertToRoman" =>
        /\ last.n >= 1 => last.str = RomanNumerals(last.n)
        /\ last.n <= 0 => /\ last.str = <<"-">>
                          /\ RomanNumerals(last.n) = <<>>
                          /\ last.str # RomanNumerals(last.n)

\* RomanNumerals(1994) has returned what convertToRoman(1994) returns, a
\* numeral with three subtractive pairs
C21_Witness ==
  /\ last.op = "RomanNumerals" /\ last.n = 1994
  /\ last.str = <<"m","c","m","x","c","i","v">>
  /\ last.str = convertToRoman(1994)

-----------------------------------------------------------------------------
(* Properties of the renderer, under Spec and SpecStyle *)

\* the receiver of the last PrintStyle call
Receiver == last.tree

RECURSIVE PathsOf(_)
\* the nodes below n, each named by the 1-based sibling positions on the way
\* down to it: a path of length d+1 names a node at depth d
PathsOf(n) ==
  UNION { {<<k>>} \cup {<<k>> \o p : p \in PathsOf(Branches[n][k])} :
            k \in 1..Len(Branches[n]) }

RECURSIVE NodeAt(_, _)
NodeAt(n, p) == IF p = <<>> THEN n ELSE NodeAt(Branches[n][Head(p)], Tail(p))

\* the node at p is the last branch of its parent
IsLastAt(n, p) ==
  p[Len(p)] = Len(Branches[NodeAt(n, SubSeq(p, 1, Len(p) - 1))])

\* q comes before p in depth-first pre-order following branch order
Before(q, p) ==
  \/ Len(q) < Len(p) /\ SubSeq(p, 1, Len(q)) = q
  \/ \E i \in 1..Len(q) :
       /\ i <= Len(p)
       /\ SubSeq(q, 1, i - 1) = SubSeq(p, 1, i - 1)
       /\ q[i] < p[i]

\* the number of line breaks of a label
Breaks(label) == Cardinality({i \in 1..Len(label) : label[i] = NL})

\* the j-th line of a label: the text between its (j-1)-th and j-th break
LineOf(label, j) ==
  LET ext == <<NL>> \o label \o <<NL>>
      at == {i \in 1..Len(ext) : ext[i] = NL}
      lo == CHOOSE i \in at : Cardinality({x \in at : x < i}) = j - 1
      hi == CHOOSE i \in at : Cardinality({x \in at : x < i}) = j
  IN  SubSeq(ext, lo + 1, hi - 1)

RECURSIVE SumLines(_, _)
\* the number of lines of the labels of the nodes at the paths ps below n
SumLines(n, ps) ==
  IF ps = {} THEN 0
  ELSE LET p == CHOOSE x \in ps : TRUE
       IN  Breaks(Label[NodeAt(n, p)]) + 1 + SumLines(n, ps \ {p})

\* the number of the output line that holds the first line of the node at p
FirstLineNo(n, p) == 1 + SumLines(n, {q \in PathsOf(n) : Before(q, p)})

\* the newline-terminated lines of a string
OutLines(str) ==
  IF str = <<>> THEN <<>>
  ELSE LET parts == Split(str, NL) IN SubSeq(parts, 1, Len(parts) - 1)

NewlineTerminated(str) == str = <<>> \/ str[Len(str)] = NL

\* the style the last PrintStyle call named is registered: its descriptor
Registered == last.style \in 0..(Len(scaffoldingDict) - 1)
Descriptor == scaffoldingDict[last.style + 1]

\* the descriptor has a template for every depth
Usable == ~Descriptor.isList \/ Len(Descriptor.markup) - 1 >= 1

\* the flow prefix of the node at p: none at depth 0, the indent string in
\* a list style, blank under a last branch and bypass otherwise
FlowPrefix(n, p, sc) ==
  IF Len(p) = 1 THEN <<>>
  ELSE IF sc.isList THEN sc.markup[1]
  ELSE IF IsLastAt(n, p) THEN sc.markup[4] ELSE sc.markup[3]

\* the indentation accumulated above the node at p: the flow prefixes of
\* its ancestors, top-down
Indentation(n, p, sc) ==
  Flatten([j \in 1..(Len(p) - 1) |-> FlowPrefix(n, SubSeq(p, 1, j), sc)])

\* the ordinal k substituted into a list template
Numbered(template, k) ==
  LET g == Governing(template)
  IN  IF g = 0 THEN template
      ELSE SpanSubst(template, Priority[g], OrdinalFor(g, k))

\* the label prefix of the node at p
LabelPrefix(n, p, sc) ==
  IF Len(p) = 1 THEN <<>>
  ELSE IF sc.isList
  THEN LET T == Len(sc.markup) - 1
           d == Len(p) - 1
       IN  Numbered(sc.markup[1 + ((d - 1) % T) + 1], p[Len(p)])
  ELSE IF IsLastAt(n, p) THEN sc.markup[2] ELSE sc.markup[1]

\* C1: in a structural style the first line of a node at depth d >= 1 is,
\* for each ancestor at depths 1..d-1 top-down, the blank markup if that
\* ancestor is a last branch and the bypass markup otherwise, then the last
\* markup if the node is a last branch and the mid markup otherwise, then
\* the line text; and the nodes are emitted in depth-first pre-order.
C1_StructuralFirstLine ==
  last.op = "PrintStyle" /\ Registered /\ ~Descriptor.isList =>
    /\ ~last.panic
    /\ LET lines == OutLines(last.str)
           m == Descriptor.markup
       IN  \A p \in PathsOf(Receiver) :
             Len(p) >= 2 =>
               LET no == FirstLineNo(Receiver, p)
                   ancestors ==
                     Flatten([j \in 1..(Len(p) - 2) |->
                                IF IsLastAt(Receiver, SubSeq(p, 1, j + 1))
                                THEN m[4] ELSE m[3]])
                   own == IF IsLastAt(Receiver, p) THEN m[2] ELSE m[1]
               IN  /\ no <= Len(lines)
                   /\ lines[no] =
                        ancestors \o own
                          \o LineOf(Label[NodeAt(Receiver, p)], 1)

\* a node at depth 2 under an ancestor that is not a last branch, and its
\* sibling subtree under the last one
C1_Witness ==
  /\ last.op = "PrintStyle" /\ ~last.panic
  /\ last.style >= Len(BuiltinStyles) /\ Registered /\ ~Descriptor.isList
  /\ \E p \in PathsOf(Receiver) :
       Len(p) = 3 /\ ~IsLastAt(Receiver, SubSeq(p, 1, 2))
  /\ \E p \in PathsOf(Receiver) :
       Len(p) = 2 /\ IsLastAt(Receiver, p)

\* C2: a label with k line breaks is rendered as k+1 consecutive
\* newline-terminated lines; the first carries the accumulated indentation
\* and the label prefix, every later one the accumulated indentation and the
\* node's flow prefix, which together are the indentation of its branches.
C2_MultilineLabel ==
  last.op = "PrintStyle" /\ Registered /\ Usable =>
    /\ ~last.panic
    /\ NewlineTerminated(last.str)
    /\ LET lines == OutLines(last.str)
           sc == Descriptor
       IN  /\ Len(lines) = SumLines(Receiver, PathsOf(Receiver))
           /\ \A p \in PathsOf(Receiver) :
                LET n == NodeAt(Receiver, p)
                    k == Breaks(Label[n])
                    no == FirstLineNo(Receiver, p)
                    indent == Indentation(Receiver, p, sc)
                    flow == FlowPrefix(Receiver, p, sc)
                IN  /\ no + k <= Len(lines)
                    /\ lines[no] = indent \o LabelPrefix(Receiver, p, sc)
                                      \o LineOf(Label[n], 1)
                    /\ \A j \in 2..(k + 1) :
                         lines[no + j - 1] =
                           indent \o flow \o LineOf(Label[n], j)
                    /\ \A c \in 1..Len(Branches[n]) :
                         LET cno == FirstLineNo(Receiver, p \o <<c>>)
                         IN  SubSeq(lines[cno], 1, Len(indent \o flow)) =
                               indent \o flow

\* a two-line label at depth 1 that is not a last branch and has a branch
C2_Witness ==
  /\ last.op = "PrintStyle" /\ last.style = BoxStyle /\ ~last.panic
  /\ \E p \in PathsOf(Receiver) :
       /\ Len(p) = 2
       /\ ~IsLastAt(Receiver, p)
       /\ Breaks(Label[NodeAt(Receiver, p)]) = 1
       /\ Branches[NodeAt(Receiver, p)] # <<>>

\* C3: the receiver's own label is never emitted, empty or not, and each of
\* its direct branches is emitted with no label prefix and no flow prefix,
\* in every style; a receiver whose branches have no branches renders as
\* the labels of its branches, one per line.
C3_ReceiverAndRootBranches ==
  last.op = "PrintStyle" /\ Registered /\ Usable =>
    LET lines == OutLines(last.str)
    IN  /\ ~last.panic
        /\ Len(lines) = SumLines(Receiver, PathsOf(Receiver))
        /\ (Branches[Receiver] = <<>> => last.str = <<>>)
        /\ \A k \in 1..Len(Branches[Receiver]) :
             LET n == Branches[Receiver][k]
                 no == FirstLineNo(Receiver, <<k>>)
             IN  \A j \in 1..(Breaks(Label[n]) + 1) :
                   /\ no + j - 1 <= Len(lines)
                   /\ lines[no + j - 1] = LineOf(Label[n], j)
        /\ ((\A k \in 1..Len(Branches[Receiver]) :
               Branches[Branches[Receiver][k]] = <<>>) =>
             last.str =
               Flatten([k \in 1..Len(Branches[Receiver]) |->
                          Label[Branches[Receiver][k]] \o <<NL>>]))

\* a receiver with a label, printed as a numbered list, with two direct
\* branches and a node below them
C3_Witness ==
  /\ last.op = "PrintStyle" /\ last.style = OrderedStyle /\ ~last.panic
  /\ Label[Receiver] # <<>>
  /\ Len(Branches[Receiver]) >= 2
  /\ \E p \in PathsOf(Receiver) : Len(p) = 2

\* C4: in a list style with T >= 1 templates the label prefix of the node
\* that is now the k-th branch of its parent, at depth d >= 1, is k
\* substituted into template ((d-1) mod T)+1.
C4_ListTemplateCycle ==
  last.op = "PrintStyle" /\ Registered /\ Descriptor.isList
      /\ Len(Descriptor.markup) - 1 >= 1 =>
    /\ ~last.panic
    /\ LET lines == OutLines(last.str)
           indent == Descriptor.markup[1]
           T == Len(Descriptor.markup) - 1
       IN  \A p \in PathsOf(Receiver) :
             Len(p) >= 2 =>
               LET d == Len(p) - 1
                   k == p[Len(p)]
                   template == Descriptor.markup[1 + ((d - 1) % T) + 1]
                   no == FirstLineNo(Receiver, p)
               IN  /\ no <= Len(lines)
                   /\ lines[no] =
                        Repeat(indent, d - 1) \o Numbered(template, k)
                          \o LineOf(Label[NodeAt(Receiver, p)], 1)

\* a numbered node deeper than the style has templates, and a second branch
\* that Sort has moved in front of an older one
C4_Witness ==
  /\ last.op = "PrintStyle" /\ ~last.panic
  /\ Registered /\ Descriptor.isList
  /\ \E p \in PathsOf(Receiver) :
       /\ Len(p) - 1 > Len(Descriptor.markup) - 1
       /\ Governing(Descriptor.markup[2]) # 0
  /\ \E p \in PathsOf(Receiver) :
       /\ Len(p) = 2 /\ p[2] = 2
       /\ NodeAt(Receiver, p) < NodeAt(Receiver, <<p[1], 1>>)
  /\ \E p \in PathsOf(Receiver) :
       /\ Len(p) = 2 /\ p[2] = 2
       /\ NodeAt(Receiver, p) < NodeAt(Receiver, <<p[1], 1>>)

\* the lines PrintStyle is to produce for the tree below n in the style sc
ExpectedLines(n, sc) ==
  [i \in 1..SumLines(n, PathsOf(n)) |->
     LET p == CHOOSE x \in PathsOf(n) :
                FirstLineNo(n, x) <= i
                  /\ i <= FirstLineNo(n, x) + Breaks(Label[NodeAt(n, x)])
         j == i - FirstLineNo(n, p) + 1
     IN  Indentation(n, p, sc)
           \o (IF j = 1 THEN LabelPrefix(n, p, sc) ELSE FlowPrefix(n, p, sc))
           \o LineOf(Label[NodeAt(n, p)], j)]

\* C10: PrintStyle with a style identifier that is negative or not smaller
\* than the registry length raises no error and returns what
\* PrintStyle(BoxStyle) returns.
C10_UnknownStyleIsBox ==
  last.op = "PrintStyle"
      /\ (last.style < 0 \/ last.style >= Len(scaffoldingDict)) =>
    /\ ~last.panic
    /\ ~PrintStyleResult(Receiver, BoxStyle).panic
    /\ last.str = PrintStyleResult(Receiver, BoxStyle).s
    /\ OutLines(last.str) = ExpectedLines(Receiver, BuiltinStyles[2])

\* the identifier next to a registry that a custom style has extended
C10_Witness ==
  /\ last.op = "PrintStyle" /\ ~last.panic
  /\ Len(scaffoldingDict) > Len(BuiltinStyles)
  /\ last.style = Len(scaffoldingDict)
  /\ \E p \in PathsOf(Receiver) : Len(p) = 3

-----------------------------------------------------------------------------
(* Properties of the style registry, under SpecStyle *)

IsRegistration(op) == op \in {"AddStructuralStyle", "AddListStyle"}

\* C11: the registry always begins with the 15 built-in entries, and every
\* registration returns the registry length before the call, makes the
\* registry one entry longer and leaves every earlier entry as and where
\* it was.
C11_RegistryAppendOnly ==
  /\ [](/\ Len(scaffoldingDict) >= Len(BuiltinStyles)
        /\ SubSeq(scaffoldingDict, 1, Len(BuiltinStyles)) = BuiltinStyles)
  /\ [][/\ scaffoldingDict' # scaffoldingDict => IsRegistration(last'.op)
        /\ IsRegistration(last'.op) =>
             /\ last'.ret = Len(scaffoldingDict)
             /\ Len(scaffoldingDict') = Len(scaffoldingDict) + 1
             /\ SubSeq(scaffoldingDict', 1, Len(scaffoldingDict)) =
                  scaffoldingDict]_vars

\* the first custom style has been given the identifier 15
C11_Witness ==
  /\ IsRegistration(last.op)
  /\ last.ret = 15
  /\ Len(scaffoldingDict) = 16
  /\ SubSeq(scaffoldingDict, 1, 15) = BuiltinStyles

\* C12: a list style without templates is rejected when it is registered,
\* so no PrintStyle call reaches a list descriptor whose template count is
\* zero, and none fails in labelPadding.
C12_ZeroTemplatesRejected ==
  last.op = "PrintStyle" /\ Registered /\ Descriptor.isList =>
    /\ Len(Descriptor.markup) - 1 >= 1
    /\ ~last.panic

-----------------------------------------------------------------------------
(* Properties of grafting, under SpecGraft *)

\* C13: AddTreeAsBranch(other) appends other's branches, in their order and
\* without other itself, when other's label is empty, and other alone when
\* it is not; the receiver's earlier branches keep order and position, and
\* no other branch list and no label changes.
C13_AddTreeAsBranch ==
  [][\A t, o \in Nodes :
       AddTreeAsBranch(t, o) =>
         LET before == Branches[t]
             after == Branches'[t]
             added == SubSeq(after, Len(before) + 1, Len(after))
         IN  /\ Len(after) >= Len(before)
             /\ SubSeq(after, 1, Len(before)) = before
             /\ Label[o] = <<>> =>
                  /\ Len(after) = Len(before) + Len(Branches[o])
                  /\ added = Branches[o]
                  /\ \A i \in 1..Len(added) : added[i] # o
             /\ Label[o] # <<>> => added = <<o>>
             /\ \A n \in Nodes \ {t} : Branches'[n] = Branches[n]
             /\ Label' = Label]_vars

\* the branches of another, unlabelled tree spliced in behind an earlier
\* branch of the receiver
C13_Witness ==
  /\ last.op = "AddTreeAsBranch"
  /\ \E t, o \in Live :
       /\ t # o
       /\ Label[o] = <<>>
       /\ Branches[o] # <<>>
       /\ Len(Branches[t]) = 1 + Len(Branches[o])
       /\ SubSeq(Branches[t], 2, Len(Branches[t])) = Branches[o]
       /\ Branches[t][1] \notin Children(o)

\* the number of times n stands in a branch list
RECURSIVE Occurrences(_, _)
Occurrences(n, m) ==
  IF m = 0 THEN 0
  ELSE Cardinality({i \in 1..Len(Branches[m]) : Branches[m][i] = n})
         + Occurrences(n, m - 1)

\* C14: every node stands in the branch list of at most one node, and at
\* most once there.
C14_ExclusiveOwnership ==
  \A n \in Live : Occurrences(n, MaxNodes) <= 1

\* a tree from which a tree that is its own descendant can be reached
CycleBelow(t) ==
  \E n \in {t} \cup Descendants(t) : n \in Descendants(n)

RECURSIVE Activations(_)
\* the steps a print call on n takes when no cycle can be reached from n:
\* one per branch, those of the calls on the branches, and its return
Activations(n) ==
  LET RECURSIVE Sum(_)
      Sum(i) == IF i = 0 THEN 0
                ELSE 1 + Activations(Branches[n][i]) + Sum(i - 1)
  IN  1 + Sum(Len(Branches[n]))

\* the steps the running PrintStyle call has left: for each activation
\* its return and what its remaining branches take
Remaining ==
  IF ~Running THEN 0
  ELSE LET RECURSIVE Rest(_, _)
           Rest(n, i) ==
             IF i >= Len(Branches[n]) THEN 0
             ELSE 1 + Activations(Branches[n][i + 1]) + Rest(n, i + 1)
           RECURSIVE Frames(_)
           Frames(k) ==
             IF k = 0 THEN 0
             ELSE 1 + Rest(last.stack[k].tree, last.stack[k].index)
                    + Frames(k - 1)
       IN  Frames(Len(last.stack))

\* C19: AddTreeAsBranch of a labelled tree to itself or to one of its
\* descendants is carried out and makes the tree its own descendant; a
\* PrintStyle call on a tree from which such a tree can be reached never
\* returns; and a PrintStyle call on any other tree returns: it can always
\* take a step, never exhausts the stack, and each step leaves it one step
\* less to take, until it returns.
C19_GraftCycleDiverges ==
  /\ [][\A t, o \in Nodes :
          /\ AddTreeAsBranch(t, o)
          /\ Label[o] # <<>>
          /\ t = o \/ t \in Descendants(o)
          => /\ Branches'[t] = Append(Branches[t], o)
             /\ (o \in Descendants(o))']_vars
  /\ [](last.op = "PrintStyle" => ~CycleBelow(last.tree))
  /\ [](last.op = "stack overflow" => CycleBelow(last.tree))
  /\ [](Running => ENABLED (PrintBranch \/ PrintReturn))
  /\ [][Running /\ ~CycleBelow(last.tree) =>
          /\ Remaining > 0
          /\ Remaining' = Remaining - 1
          /\ Remaining' = 0 <=> last'.op = "PrintStyle"]_vars

\* a labelled tree grafted below itself, and the PrintStyle call that met
\* it ended by the runtime
C19_Witness ==
  /\ last.op = "stack overflow"
  /\ \E n \in Live : Label[n] # <<>> /\ n \in Descendants(n)

-----------------------------------------------------------------------------
(* Properties of sorting and of Depth, under SpecSort *)

\* the position of x in seq
Pos(seq, x) == CHOOSE i \in 1..Len(seq) : seq[i] = x

\* after holds the elements of before, each as often
Permutation(before, after) ==
  /\ Len(after) = Len(before)
  /\ \A x \in Nodes :
       Cardinality({i \in 1..Len(after) : after[i] = x}) =
         Cardinality({i \in 1..Len(before) : before[i] = x})

\* no branch stands in front of one with a smaller label
NonDecreasing(seq) ==
  \A i, j \in 1..Len(seq) :
    i < j => ~StringLess(Label[seq[j]], Label[seq[i]])

\* C15: Sort permutes the receiver's branches into non-decreasing label
\* order and changes no other branch list; DeepSort does so for the
\* receiver and every descendant and changes no other branch list; the
\* nodes and their labels stay as they are.
C15_SortScope ==
  [][\A t \in Nodes :
       /\ last'.op = "Sort" /\ last'.tree = t =>
            /\ Permutation(Branches[t], Branches'[t])
            /\ NonDecreasing(Branches'[t])
            /\ \A n \in Nodes \ {t} : Branches'[n] = Branches[n]
            /\ Label' = Label /\ used' = used
       /\ last'.op = "DeepSort" /\ last'.tree = t =>
            /\ \A n \in {t} \cup Descendants(t) :
                 /\ Permutation(Branches[n], Branches'[n])
                 /\ NonDecreasing(Branches'[n])
            /\ \A n \in Nodes \ ({t} \cup Descendants(t)) :
                 Branches'[n] = Branches[n]
            /\ Label' = Label /\ used' = used]_vars

\* Sort has moved a branch of the receiver in front of an older one, and a
\* branch of the receiver has its own branches out of label order
C15_Witness ==
  /\ last.op = "Sort"
  /\ \E i \in 1..(Len(Branches[last.tree]) - 1) :
       Branches[last.tree][i] > Branches[last.tree][i + 1]
  /\ \E c \in Children(last.tree) : ~NonDecreasing(Branches[c])

\* the ordering of the last sort treats x and y as equal
SortedBy(op) ==
  op \in {"Sort", "DeepSort", "SortCustom", "DeepSortCustom"}
Equivalent(call, x, y) ==
  IF call.op \in {"Sort", "DeepSort"}
  THEN Label[x] = Label[y]
  ELSE IF call.less = "length" THEN Len(Label[x]) = Len(Label[y])
  ELSE Label[x] = Label[y]

\* C16: after Sort, SortCustom, DeepSort or DeepSortCustom, two siblings
\* that the ordering treats as equal stand in the relative order they had
\* before.
C16_SortStable ==
  [][SortedBy(last'.op) =>
       \A n \in Nodes :
         \A i, j \in 1..Len(Branches[n]) :
           i < j /\ Equivalent(last', Branches[n][i], Branches[n][j]) =>
             Pos(Branches'[n], Branches[n][i])
               < Pos(Branches'[n], Branches[n][j])]_vars

\* a sort by label length has moved a branch, and left two branches of one
\* length with the younger in front, where an earlier sort had put it
C16_Witness ==
  /\ last.op \in {"SortCustom", "DeepSortCustom"} /\ last.less = "length"
  /\ LET seq == Branches[last.tree]
     IN  /\ \E i \in 1..(Len(seq) - 1) :
              /\ Len(Label[seq[i]]) = Len(Label[seq[i + 1]])
              /\ seq[i] > seq[i + 1]
         /\ \E i \in 1..(Len(seq) - 1) :
              /\ Len(Label[seq[i]]) < Len(Label[seq[i + 1]])
              /\ StringLess(Label[seq[i + 1]], Label[seq[i]])

\* C17: a second DeepSort leaves every branch list as the first left it.
C17_DeepSortIdempotent ==
  last.op = "DeepSort" => DeepSortResult(Branches, last.tree) = Branches

\* DeepSort has been applied to a tree with two branches of one label and
\* with branches below its branches
C17_Witness ==
  /\ last.op = "DeepSort"
  /\ \E i, j \in 1..Len(Branches[last.tree]) :
       /\ i < j
       /\ Label[Branches[last.tree][i]] = Label[Branches[last.tree][j]]
  /\ \E c \in Children(last.tree) : Branches[c] # <<>>

\* the largest of a set of numbers, 0 for none
Largest(S) == IF S = {} THEN 0 ELSE CHOOSE x \in S : \A y \in S : y <= x

\* the number of edges of the longest downward path from n
LongestPath(n) == Largest({Len(p) : p \in PathsOf(n)})

\* C20: Depth() is 0 for a node without branches and otherwise 1 plus the
\* largest Depth() of its branches; it is the number of edges of the
\* longest downward path, which depends on neither labels nor branch order.
C20_Depth ==
  /\ last.op = "Depth" =>
       /\ Branches[last.tree] = <<>> => last.ret = 0
       /\ Branches[last.tree] # <<>> =>
            last.ret =
              1 + Largest({DepthResult(c) : c \in Children(last.tree)})
       /\ last.ret = LongestPath(last.tree)
  /\ SortedBy(last.op) =>
       \A n \in Live : DepthResult(n) = LongestPath(n)

\* Depth of a tree whose first branch reaches deeper than its last
C20_Witness ==
  /\ last.op = "Depth"
  /\ last.ret >= 2
  /\ LET seq == Branches[last.tree]
     IN  /\ Len(seq) >= 2
         /\ DepthResult(seq[1]) > DepthResult(seq[Len(seq)])

-----------------------------------------------------------------------------
(* Repeatable rendering, under SpecStyle *)

\* the step changes trees or styles, but neither t nor a tree below it
Unmutated(t) ==
  /\ <<Label, Branches, scaffoldingDict>>' # <<Label, Branches, scaffoldingDict>>
  /\ \A n \in {t} \cup Descendants(t) :
       Branches'[n] = Branches[n] /\ Label'[n] = Label[n]

\* style identifiers: one below the registry, a built-in structural and a
\* built-in list style, and all that a custom style can get
StyleIds ==
  {-1, BoxStyle, ASCIIBulletStyle}
    \cup (Len(BuiltinStyles)..(Len(BuiltinStyles) + MaxCustom))

\* C18 as stated: whatever happens between two PrintStyle(s) calls on t,
\* style registrations included, they return the same when t and its
\* descendants are not mutated.
C18_RepeatableForEveryStyle ==
  [][\A t \in Live, s \in StyleIds :
       Unmutated(t) => PrintStyleResult(t, s)' = PrintStyleResult(t, s)]_vars

\* C18, amended: two PrintStyle(s) calls on t return the same when t and
\* its descendants are not mutated between them and s is below the
\* registry length at the first call, or still not below it at the second.
C18_RepeatableForResolvedStyle ==
  [][\A t \in Live, s \in StyleIds :
       /\ Unmutated(t)
       /\ s < Len(scaffoldingDict) \/ s >= Len(scaffoldingDict')
       => PrintStyleResult(t, s)' = PrintStyleResult(t, s)]_vars

\* a PrintStyle(BoxStyle) call on a tree with nested branches, made after
\* a style has been registered
C18_Witness ==
  /\ last.op = "PrintStyle" /\ last.style = BoxStyle /\ ~last.panic
  /\ Len(scaffoldingDict) > Len(BuiltinStyles)
  /\ \E p \in PathsOf(last.tree) : Len(p) >= 2
  /\ last.str = PrintStyleResult(last.tree, BoxStyle).s

====
